---- MODULE Spec2Model ----
(***************************************************************************)
(* Model of the TalentLayer client SDK escrow driver                       *)
(* (packages/client/src/types/index.ts, class Escrow): the approve,        *)
(* release and reimburse operations, each an asynchronous sequence that    *)
(* suspends at every await.  One action of the model is the code that runs *)
(* between two suspension points: it consumes the outcome of the awaited   *)
(* collaborator call and runs up to and including the issue of the next    *)
(* collaborator call (or up to the return / throw).                        *)
(***************************************************************************)
EXTENDS Integers, Sequences, FiniteSets, TLC

VARIABLES inv, allowance

vars == <<inv, allowance>>

(***************************************************************************)
(* Bounds of the model.                                                    *)
(***************************************************************************)
MaxAmount == 4
MaxAllowance == 9

(* Invocations that can be in flight.  Spec runs invocation 1 alone. *)
Procs == {1, 2}

(***************************************************************************)
(* Program constants.                                                      *)
(***************************************************************************)
FEE_RATE_DIVIDER == 10000

NATIVE == "0x0000000000000000000000000000000000000000"

USDC == "0xe6b8a5CF854791412c1f6EFC7CAf629f5Df1c747"

(* Fee rates published by the indexed data service: none, a quarter, all. *)
Rates == {0, 2500, FEE_RATE_DIVIDER}

(* writeContract called without a value argument. *)
NoValue == -1

(***************************************************************************)
(* Values returned by the collaborators.                                   *)
(***************************************************************************)

(* proposalInstance.getOne(proposalId): null, or a proposal whose cid may  *)
(* be undefined or the empty string.                                       *)
NoProposal ==
  [found |-> FALSE, hasCid |-> FALSE, cid |-> "", rateAmount |-> 0, rateToken |-> NATIVE,
   sellerId |-> <<"2">>, servicePlatformId |-> <<"1">>, platformId |-> <<"3">>]

FoundProposals(hasCid, cid, amounts) ==
  [found : {TRUE}, hasCid : {hasCid}, cid : {cid}, rateAmount : amounts,
   rateToken : {NATIVE, USDC}, sellerId : {<<"2">>}, servicePlatformId : {<<"1">>},
   platformId : {<<"3">>}]

ProposalResults ==
  {NoProposal} \cup FoundProposals(FALSE, "", {1}) \cup FoundProposals(TRUE, "", {1})
    \cup FoundProposals(TRUE, "QmProposal", 0..MaxAmount)

(* One fee record of the fee-schedule response: the record is missing, the *)
(* record lacks its rate field, or the record carries a rate.              *)
MissingRecord == [kind |-> "missing", rate |-> 0]

FeeRecords ==
  {MissingRecord, [kind |-> "norate", rate |-> 0]} \cup [kind : {"ok"}, rate : Rates]

(* graphQlClient.get(query): no response, a response without data, or a    *)
(* response whose data holds servicePlatform, proposalPlatform, protocols. *)
NoFees ==
  [resp |-> "null", servicePlatform |-> MissingRecord, proposalPlatform |-> MissingRecord,
   protocol |-> MissingRecord]

FeeResponses ==
  {NoFees, [NoFees EXCEPT !.resp = "nodata"]} \cup
  [resp : {"data"}, servicePlatform : FeeRecords, proposalPlatform : FeeRecords,
   protocol : FeeRecords]

(* serviceInstance.getOne(serviceId): null, a service without transaction, *)
(* a transaction without id or with an empty id, or a transaction id.      *)
NoService == [found |-> FALSE, hasTransaction |-> FALSE, hasId |-> FALSE, id |-> <<>>]

ServiceResults ==
  {NoService,
   [found |-> TRUE, hasTransaction |-> FALSE, hasId |-> FALSE, id |-> <<>>],
   [found |-> TRUE, hasTransaction |-> TRUE, hasId |-> FALSE, id |-> <<>>]} \cup
  [found : {TRUE}, hasTransaction : {TRUE}, hasId : {TRUE},
   id : {<<>>, <<"0">>, <<"7">>, <<"1", "2">>}]

(* Arguments of release and reimburse. *)
UserIds == {5}

ReleaseAmounts == 0..MaxAmount \cup {3 * MaxAmount}

(***************************************************************************)
(* Chain configuration registry (config.ts).  An address is the sequence   *)
(* of its characters.                                                      *)
(***************************************************************************)
zeroAddress ==
  <<"0", "x", "0", "0", "0", "0", "0", "0", "0", "0", "0", "0", "0", "0",
    "0", "0", "0", "0", "0", "0", "0", "0", "0", "0", "0", "0", "0", "0",
    "0", "0", "0", "0", "0", "0", "0", "0", "0", "0", "0", "0", "0", "0">>

amoy ==
  [defined |-> TRUE, subgraphUrl |-> "https://api.studio.thegraph.com/query/41228/tl-graph-amoy/v0.0.1",
   talentLayerArbitrator |->
    <<"0", "x", "0", "F", "3", "9", "E", "0", "f", "f", "E", "a", "B", "E",
      "0", "C", "1", "0", "0", "7", "6", "8", "F", "1", "6", "9", "8", "8",
      "F", "0", "c", "9", "4", "0", "5", "4", "2", "8", "E", "2", "D", "8">>]

mumbai ==
  [defined |-> TRUE, subgraphUrl |-> "https://api.thegraph.com/subgraphs/name/talentlayer/talent-layer-mumbai",
   talentLayerArbitrator |->
    <<"0", "x", "2", "C", "A", "0", "1", "a", "0", "0", "5", "8", "c", "f",
      "B", "3", "c", "c", "4", "7", "5", "5", "a", "7", "7", "7", "3", "8",
      "8", "1", "e", "a", "8", "8", "e", "C", "f", "B", "b", "a", "7", "C">>]

iexec ==
  [defined |-> TRUE, subgraphUrl |-> "https://thegraph-sandbox.iex.ec/subgraphs/name/users/talentLayer",
   talentLayerArbitrator |->
    <<"0", "x", "2", "4", "c", "E", "d", "0", "4", "5", "b", "5", "0", "c",
      "F", "8", "1", "1", "8", "6", "2", "B", "1", "c", "3", "3", "d", "C",
      "6", "B", "1", "f", "b", "C", "8", "3", "5", "8", "F", "5", "2", "1">>]

polygon ==
  [defined |-> TRUE, subgraphUrl |-> "https://api.thegraph.com/subgraphs/name/talentlayer/talentlayer-polygon",
   talentLayerArbitrator |->
    <<"0", "x", "4", "5", "0", "2", "E", "6", "9", "5", "A", "7", "4", "7",
      "F", "1", "b", "3", "8", "2", "a", "1", "6", "D", "6", "C", "8", "A",
      "E", "3", "F", "D", "9", "4", "D", "A", "7", "8", "e", "7", "a", "0">>]

fuji ==
  [defined |-> TRUE, subgraphUrl |-> "https://api.studio.thegraph.com/query/41228/tl-graph-fuji/version/latest",
   talentLayerArbitrator |->
    <<"0", "x", "0", "0", "0", "0", "0", "0", "0", "0", "0", "0", "0", "0",
      "0", "0", "0", "0", "0", "0", "0", "0", "0", "0", "0", "0", "0", "0",
      "0", "0", "0", "0", "0", "0", "0", "0", "0", "0", "0", "0", "0", "0">>]

(* The value of a missing table entry. *)
undefinedConfig == [defined |-> FALSE, subgraphUrl |-> "", talentLayerArbitrator |-> <<>>]

NetworkEnum == {"AMOY", "MUMBAI", "IEXEC", "POLYGON", "FUJI", "LOCAL"}

(* Network identifiers that are no member of NetworkEnum. *)
OtherNetworkIds == {"ETHEREUM", "SEPOLIA"}

chains ==
  [networkId \in NetworkEnum |->
     CASE networkId = "AMOY" -> amoy
       [] networkId = "MUMBAI" -> mumbai
       [] networkId = "IEXEC" -> iexec
       [] networkId = "POLYGON" -> polygon
       [] networkId = "FUJI" -> fuji
       [] networkId = "LOCAL" -> mumbai]

(* chains[networkId]: undefined when the table has no such key. *)
getChainConfig(networkId) ==
  IF networkId \in DOMAIN chains THEN chains[networkId] ELSE undefinedConfig

(* A configuration supplied by the caller for a local network. *)
localConfig ==
  [defined |-> TRUE, subgraphUrl |-> "http://localhost:8020/",
   talentLayerArbitrator |->
    <<"0", "x", "5", "F", "b", "D", "B", "2", "3", "1", "5", "6", "7", "8",
      "a", "f", "e", "c", "b", "3", "6", "7", "f", "0", "3", "2", "d", "9",
      "3", "F", "6", "4", "2", "f", "6", "4", "1", "8", "0", "a", "a", "3">>]

NoCustomConfig == [present |-> FALSE, contractConfig |-> undefinedConfig]

CustomConfigs == {NoCustomConfig, [present |-> TRUE, contractConfig |-> localConfig]}

(* String.prototype.toLowerCase on the characters of an address. *)
UpperCase == <<"A", "B", "C", "D", "E", "F", "X">>

LowerCase == <<"a", "b", "c", "d", "e", "f", "x">>

toLowerCase(s) ==
  [k \in DOMAIN s |->
     IF \E i \in DOMAIN UpperCase : UpperCase[i] = s[k]
     THEN LowerCase[CHOOSE i \in DOMAIN UpperCase : UpperCase[i] = s[k]]
     ELSE s[k]]

toUpperCase(s) ==
  [k \in DOMAIN s |->
     IF \E i \in DOMAIN LowerCase : LowerCase[i] = s[k]
     THEN UpperCase[CHOOSE i \in DOMAIN LowerCase : LowerCase[i] = s[k]]
     ELSE s[k]]

(* The optional platformId argument: absent, or a number. *)
NoPlatformId == [given |-> FALSE, value |-> 0]

PlatformIdArgs == {NoPlatformId} \cup [given : {TRUE}, value : {0, 7}]

(* this.platformID of the instance the operation is invoked on. *)
DefaultPlatformId == 3

(* platformId || this.platformID *)
ResolvePlatformId(platformId, default) ==
  IF platformId.given /\ platformId.value # 0 THEN platformId.value ELSE default

(* graphQlClient.get(getProfileByAddress(address)): no response, a         *)
(* response without data, data without users, users that is no array, or   *)
(* a list of users.  graphQlClient.get(getProtocolById(1)): no response, a *)
(* response without data, data without protocol, or a protocol whose id    *)
(* and userMintFee may be missing.                                         *)
NoUser == [id |-> "", handle |-> ""]

Users == {[id |-> "1", handle |-> "alice"], [id |-> "2", handle |-> "bob"]}

NoProtocol == [found |-> FALSE, hasId |-> FALSE, id |-> <<>>, hasFee |-> FALSE, userMintFee |-> <<>>]

NoResponse == [resp |-> "null", users |-> "missing", list |-> <<>>, protocol |-> NoProtocol]

UserLists == {<<>>} \cup {<<u>> : u \in Users} \cup {<<u, v>> : u \in Users, v \in Users}

ProfileResponses ==
  {NoResponse, [NoResponse EXCEPT !.resp = "nodata"], [NoResponse EXCEPT !.resp = "data"],
   [NoResponse EXCEPT !.resp = "data", !.users = "notArray"]} \cup
  {[NoResponse EXCEPT !.resp = "data", !.users = "array", !.list = l] : l \in UserLists}

MintFees == {<<"0">>, <<"1">>, <<"1", "2">>}

Protocols ==
  {NoProtocol, [NoProtocol EXCEPT !.found = TRUE],
   [NoProtocol EXCEPT !.found = TRUE, !.hasId = TRUE],
   [NoProtocol EXCEPT !.found = TRUE, !.hasId = TRUE, !.id = <<"1">>]} \cup
  {[found |-> TRUE, hasId |-> hasId, id |-> id, hasFee |-> TRUE, userMintFee |-> fee] :
     hasId \in BOOLEAN, id \in {<<>>, <<"1">>}, fee \in MintFees}

ProtocolResponses ==
  {NoResponse, [NoResponse EXCEPT !.resp = "nodata"]} \cup
  {[NoResponse EXCEPT !.resp = "data", !.protocol = protocol] : protocol \in Protocols}

Handles == {"alice"}

(* A collaborator call: the function called, its arguments, the value      *)
(* attached to a ledger write, its outcome ("pending" while awaited) and   *)
(* the transaction hash it returned, if any.                               *)
Call(fn, args, value) ==
  [fn |-> fn, args |-> args, value |-> value, out |-> "pending", ret |-> ""]

SetOut(calls, out) == [calls EXCEPT ![Len(calls)] = [@ EXCEPT !.out = out]]

SetRet(calls, out, ret) ==
  [calls EXCEPT ![Len(calls)] = [@ EXCEPT !.out = out, !.ret = ret]]

(* Transaction hashes writeContract can return. *)
Hashes == {"0xa11ce", "0xb0b"}

(* Decimal strings are sequences of digit characters. *)
Digits == <<"0", "1", "2", "3", "4", "5", "6", "7", "8", "9">>

DigitValue(c) == (CHOOSE i \in 1..10 : Digits[i] = c) - 1

(* parseInt(s, 10) of a string of decimal digits. *)
RECURSIVE parseInt(_)
parseInt(s) ==
  IF Len(s) = 0 THEN 0
  ELSE 10 * parseInt(SubSeq(s, 1, Len(s) - 1)) + DigitValue(s[Len(s)])

(* bigint.toString() of a non-negative amount. *)
RECURSIVE toString(_)
toString(n) ==
  IF n < 10 THEN <<Digits[n + 1]>>
  ELSE Append(toString(n \div 10), Digits[(n % 10) + 1])

(* The state of one invocation: its position, its arguments, what it has   *)
(* fetched and computed, the collaborator calls it has issued and its      *)
(* outcome.                                                                *)
Idle ==
  [pc |-> "idle", op |-> "none", serviceId |-> <<"4">>, proposalId |-> <<"4", "-", "2">>,
   metaEvidenceCid |-> "QmMeta", userId |-> 0, amount |-> 0,
   proposal |-> NoProposal, fees |-> NoFees,
   service |-> NoService, approvalAmount |-> 0, allowanceRead |-> 0, calls |-> <<>>,
   err |-> "", tx |-> "", cid |-> "",
   platformId |-> NoPlatformId, platformID |-> 0,
   customConfig |-> NoCustomConfig, chainId |-> "", address |-> <<>>,
   lookedUp |-> FALSE, config |-> undefinedConfig, arbitrators |-> <<>>,
   graphQLConfig |-> [chainId |-> "", subgraphUrl |-> ""],
   handle |-> "", response |-> NoResponse, returned |-> [type |-> "none", value |-> NoUser]]

(***************************************************************************)
(* Pure parts of Escrow.approve.                                           *)
(***************************************************************************)

(* Slip: only an undefined cid is rejected, the empty string passes. *)
CidMissing_UndefinedOnly(proposal) == ~proposal.hasCid

(* !proposal.cid *)
CidMissing(proposal) == ~proposal.hasCid \/ proposal.cid = ""

(* response?.data || null *)
FeesData(response) == IF response.resp = "data" THEN response ELSE NoFees

FeesAbsent(fees) == fees.resp # "data"

(* Slip: a missing record or rate is read as the rate 0. *)
FeeRead_DefaultZero(fees) ==
  LET zero(r) == IF r.kind = "ok" THEN r ELSE [kind |-> "ok", rate |-> 0] IN
  [throws |-> FALSE,
   args |-> <<zero(fees.servicePlatform), zero(fees.proposalPlatform), zero(fees.protocol)>>]

(* The three rate arguments of calculateApprovalAmount, in call order:     *)
(* servicePlatform.originServiceFeeRate,                                   *)
(* proposalPlatform.originValidatedProposalFeeRate and                     *)
(* protocols[0].protocolEscrowFeeRate.  Reading the rate of a missing      *)
(* record throws a TypeError; a record without the field gives undefined.  *)
FeeRead(fees) ==
  IF \/ fees.servicePlatform.kind = "missing"
     \/ fees.proposalPlatform.kind = "missing"
     \/ fees.protocol.kind = "missing"
  THEN [throws |-> TRUE, args |-> <<>>]
  ELSE [throws |-> FALSE,
        args |-> <<fees.servicePlatform, fees.proposalPlatform, fees.protocol>>]

(* utils/fees: a rate that is not a number is rejected. *)
FeeRateMalformed(args) == \E k \in DOMAIN args : args[k].kind # "ok"

(* utils/fees: base amount plus three fee components, each an integer      *)
(* division of rateAmount * rate by the divider.                           *)
calculateApprovalAmount(rateAmount, serviceFeeRate, proposalFeeRate, protocolFeeRate) ==
  rateAmount
    + ((rateAmount * serviceFeeRate) \div FEE_RATE_DIVIDER)
    + ((rateAmount * proposalFeeRate) \div FEE_RATE_DIVIDER)
    + ((rateAmount * protocolFeeRate) \div FEE_RATE_DIVIDER)

(* Slip: the service platform's rate is passed in place of the protocol's. *)
ApprovalAmountOf_ServiceRateTwice(proposal, args) ==
  calculateApprovalAmount(proposal.rateAmount, args[1].rate, args[2].rate, args[1].rate)

(* The call of calculateApprovalAmount in approve. *)
ApprovalAmountOf(proposal, args) ==
  calculateApprovalAmount(proposal.rateAmount, args[1].rate, args[2].rate, args[3].rate)

(* The arguments of createTransaction. *)
CreateArgs(i) ==
  <<parseInt(i.serviceId), parseInt(i.proposal.sellerId), i.metaEvidenceCid, i.proposal.cid>>

(* Slip: the rate token is never recognised as the native currency. *)
IsNative_Never(proposal) == FALSE

(* proposal.rateToken.address === RateToken.NATIVE *)
IsNative(proposal) == proposal.rateToken = NATIVE

(* Slip: the bare rate amount is attached instead of the approval amount. *)
NativeValue_RateAmount(proposal, approvalAmount) == proposal.rateAmount

(* The value attached to createTransaction on the native path. *)
NativeValue(proposal, approvalAmount) == approvalAmount

(* Slip: <= instead of <. *)
NeedsApproval_OrEqual(allowanceValue, approvalAmount) == allowanceValue <= approvalAmount

(* allowance < approvalAmount *)
NeedsApproval(allowanceValue, approvalAmount) == allowanceValue < approvalAmount

(* Slip: only the shortfall is approved. *)
ApproveAmount_Delta(allowanceValue, approvalAmount) == approvalAmount - allowanceValue

(* The amount passed to erc20.approve. *)
ApproveAmount(allowanceValue, approvalAmount) == approvalAmount

(* The error thrown by the catch block around approve and the receipt wait. *)
ApprovalCatchError == "Approval transaction failed with error"

(* Slip: the receipt status is not looked at. *)
ReceiptFailed_Ignored(status) == FALSE

(* approvalTransactionReceipt.status !== 'success' *)
ReceiptFailed(status) == status # "success"

(***************************************************************************)
(* Escrow.approve                                                          *)
(***************************************************************************)
Set(p, r) == inv' = [inv EXCEPT ![p] = r]

Throw(p, calls, message) ==
  Set(p, [inv[p] EXCEPT !.pc = "error", !.err = message, !.calls = calls])

(* Entry up to the await of proposalInstance.getOne. *)
ApproveStart(p) ==
  /\ inv[p].pc = "idle"
  /\ \E platformId \in PlatformIdArgs :
       Set(p, [inv[p] EXCEPT !.pc = "awaitProposal", !.op = "approve",
                             !.platformId = platformId,
                             !.platformID = ResolvePlatformId(platformId, DefaultPlatformId),
                             !.calls = Append(@, Call("proposal.getOne", <<inv[p].proposalId>>,
                                                      NoValue))])
  /\ UNCHANGED allowance

(* getOne settled: the two proposal checks, then the fee-schedule query. *)
ProposalFetched(p) ==
  /\ inv[p].pc = "awaitProposal"
  /\ \E outcome \in {"ok", "throw"}, proposal \in ProposalResults :
       LET calls == SetOut(inv[p].calls, outcome) IN
       IF outcome = "throw" THEN
         /\ proposal = NoProposal
         /\ Throw(p, calls, "rejected: getOne")
       ELSE IF ~proposal.found THEN
         Set(p, [inv[p] EXCEPT !.pc = "error", !.err = "Proposal not found", !.calls = calls,
                               !.proposal = proposal])
       ELSE IF CidMissing(proposal) THEN
         Set(p, [inv[p] EXCEPT !.pc = "error", !.err = "Proposal cid not found",
                               !.calls = calls, !.proposal = proposal])
       ELSE Set(p, [inv[p] EXCEPT !.pc = "awaitFees", !.proposal = proposal,
                                  !.cid = proposal.cid,
                                  !.calls = Append(calls, Call("getProtocolAndPlatformsFees",
                                                             <<proposal.servicePlatformId, proposal.platformId>>,
                                                             NoValue))])
  /\ UNCHANGED allowance

(* The fee-schedule query settled: the approval amount, then the branch on *)
(* the rate token, issuing createTransaction or the allowance read.        *)
FeesFetched(p) ==
  /\ inv[p].pc = "awaitFees"
  /\ \E outcome \in {"ok", "throw"}, response \in FeeResponses :
       LET calls == SetOut(inv[p].calls, outcome)
           fees == FeesData(response)
           proposal == inv[p].proposal
           read == FeeRead(fees)
           approvalAmount == ApprovalAmountOf(proposal, read.args)
       IN
       IF outcome = "throw" THEN
         /\ response = NoFees
         /\ Throw(p, calls, "rejected: getProtocolAndPlatformsFees")
       ELSE IF FeesAbsent(fees) THEN
         Set(p, [inv[p] EXCEPT !.pc = "error", !.err = "Unable to fetch fees", !.calls = calls,
                               !.fees = response])
       ELSE IF read.throws THEN
         Set(p, [inv[p] EXCEPT !.pc = "error", !.err = "TypeError", !.calls = calls,
                               !.fees = fees])
       ELSE IF FeeRateMalformed(read.args) THEN
         Set(p, [inv[p] EXCEPT !.pc = "error", !.err = "InvalidFeeRateError", !.calls = calls,
                               !.fees = fees])
       ELSE IF IsNative(proposal) THEN
         Set(p, [inv[p] EXCEPT !.pc = "awaitCreate", !.fees = fees,
                               !.approvalAmount = approvalAmount,
                               !.calls = Append(calls, Call("createTransaction",
                                                           CreateArgs(inv[p]),
                                                           NativeValue(proposal, approvalAmount)))])
       ELSE
         Set(p, [inv[p] EXCEPT !.pc = "awaitAllowance", !.fees = fees,
                               !.approvalAmount = approvalAmount,
                               !.calls = Append(calls, Call("checkAllowance", <<proposal.rateToken>>, NoValue))])
  /\ UNCHANGED allowance

(* checkAllowance settled: approve when the allowance is too low, else     *)
(* createTransaction.                                                      *)
AllowanceRead(p) ==
  /\ inv[p].pc = "awaitAllowance"
  /\ \E outcome \in {"ok", "throw"} :
       LET calls == SetOut(inv[p].calls, outcome)
           approvalAmount == inv[p].approvalAmount
       IN
       IF outcome = "throw" THEN Throw(p, calls, "rejected: checkAllowance")
       ELSE IF NeedsApproval(allowance, approvalAmount) THEN
         Set(p, [inv[p] EXCEPT !.pc = "awaitApprove", !.allowanceRead = allowance,
                               !.calls = Append(calls, Call("erc20.approve",
                                                           <<inv[p].proposal.rateToken,
                                                             ApproveAmount(allowance, approvalAmount)>>,
                                                           NoValue))])
       ELSE
         Set(p, [inv[p] EXCEPT !.pc = "awaitCreate", !.allowanceRead = allowance,
                               !.calls = Append(calls, Call("createTransaction", CreateArgs(inv[p]), NoValue))])
  /\ UNCHANGED allowance

(* Slip: a failed approve is submitted a second time. *)
ApproveSubmitted_Retry(p) ==
  /\ inv[p].pc = "awaitApprove"
  /\ \E outcome \in {"ok", "throw"} :
       LET calls == SetOut(inv[p].calls, outcome) IN
       IF outcome = "throw" THEN
         IF Len(calls) < 5
         THEN Set(p, [inv[p] EXCEPT !.calls = Append(calls, [calls[Len(calls)] EXCEPT
                                                              !.out = "pending"])])
         ELSE Throw(p, calls, ApprovalCatchError)
       ELSE Set(p, [inv[p] EXCEPT !.pc = "awaitReceipt",
                                  !.calls = Append(calls, Call("waitForTransactionReceipt", <<>>, NoValue))])
  /\ UNCHANGED allowance

(* erc20.approve settled: wait for the receipt, or the catch block. *)
ApproveSubmitted(p) ==
  /\ inv[p].pc = "awaitApprove"
  /\ \E outcome \in {"ok", "throw"} :
       LET calls == SetOut(inv[p].calls, outcome) IN
       IF outcome = "throw" THEN Throw(p, calls, ApprovalCatchError)
       ELSE Set(p, [inv[p] EXCEPT !.pc = "awaitReceipt",
                                  !.calls = Append(calls, Call("waitForTransactionReceipt", <<>>, NoValue))])
  /\ UNCHANGED allowance

(* waitForTransactionReceipt settled: the status check and the catch       *)
(* block, then createTransaction.  A successful approve transaction sets   *)
(* the payer's allowance for the escrow contract to the approved amount.   *)
ReceiptArrived(p) ==
  /\ inv[p].pc = "awaitReceipt"
  /\ \E outcome \in {"success", "reverted", "throw"} :
       LET calls == SetOut(inv[p].calls, outcome)
           approved == inv[p].calls[Len(inv[p].calls) - 1].args[2]
       IN
       /\ allowance' = IF outcome = "success" THEN approved ELSE allowance
       /\ IF outcome = "throw" \/ ReceiptFailed(outcome)
          THEN Throw(p, calls, ApprovalCatchError)
          ELSE Set(p, [inv[p] EXCEPT !.pc = "awaitCreate",
                                     !.calls = Append(calls, Call("createTransaction", CreateArgs(inv[p]), NoValue))])

(* Slip: the payload is returned whatever createTransaction returned. *)
TxReturned_Always(tx) == TRUE

(* if (tx) *)
TxReturned(tx) == tx # ""

(* { tx, cid: proposal.cid } *)
ApprovePayload(tx, proposal) == [tx |-> tx, cid |-> proposal.cid]

(* createTransaction settled: the payload, or 'Error creating Transaction'. *)
TransactionCreated(p) ==
  /\ inv[p].pc = "awaitCreate"
  /\ \E outcome \in {"hash", "falsy", "throw"}, tx \in Hashes \cup {""} :
       LET calls == SetRet(inv[p].calls, outcome, tx)
           payload == ApprovePayload(tx, inv[p].proposal)
       IN
       /\ (outcome = "hash") = (tx \in Hashes)
       /\ IF outcome = "throw" THEN Throw(p, calls, "rejected: createTransaction")
          ELSE IF TxReturned(tx) THEN
            Set(p, [inv[p] EXCEPT !.pc = "done", !.tx = payload.tx, !.cid = payload.cid,
                                  !.calls = calls])
          ELSE Throw(p, calls, "Error creating Transaction")
  /\ UNCHANGED allowance

Approve(p) ==
  \/ ApproveStart(p)
  \/ ProposalFetched(p)
  \/ FeesFetched(p)
  \/ AllowanceRead(p)
  \/ ApproveSubmitted(p)
  \/ ReceiptArrived(p)
  \/ TransactionCreated(p)

(***************************************************************************)
(* Escrow.release and Escrow.reimburse                                     *)
(***************************************************************************)

(* service?.transaction?.id *)
TransactionIdOf(service) ==
  IF service.found /\ service.hasTransaction /\ service.hasId
  THEN [defined |-> TRUE, id |-> service.id]
  ELSE [defined |-> FALSE, id |-> <<>>]

(* Slip: the transaction id is used unchecked. *)
TransactionIdMissing_Unchecked(transactionId) == FALSE

(* !transactionId *)
TransactionIdMissing(transactionId) == ~transactionId.defined \/ transactionId.id = <<>>

(* Slip: the user id and the transaction id change places. *)
SettleArgs_Swapped(i, transactionId) == <<parseInt(transactionId.id), i.userId, toString(i.amount)>>

(* The arguments of the release / reimburse ledger write. *)
SettleArgs(i, transactionId) == <<i.userId, parseInt(transactionId.id), toString(i.amount)>>

(* Entry of release up to the await of serviceInstance.getOne. *)
ReleaseStart(p) ==
  /\ inv[p].pc = "idle"
  /\ \E amount \in ReleaseAmounts, userId \in UserIds, platformId \in PlatformIdArgs :
       Set(p, [inv[p] EXCEPT !.pc = "awaitService", !.op = "release", !.amount = amount,
                             !.userId = userId, !.platformId = platformId,
                             !.platformID = ResolvePlatformId(platformId, DefaultPlatformId),
                             !.calls = Append(@, Call("service.getOne", <<inv[p].serviceId>>, NoValue))])
  /\ UNCHANGED allowance

(* Entry of reimburse up to the await of serviceInstance.getOne. *)
ReimburseStart(p) ==
  /\ inv[p].pc = "idle"
  /\ \E amount \in ReleaseAmounts, userId \in UserIds, platformId \in PlatformIdArgs :
       Set(p, [inv[p] EXCEPT !.pc = "awaitService", !.op = "reimburse", !.amount = amount,
                             !.userId = userId, !.platformId = platformId,
                             !.platformID = ResolvePlatformId(platformId, DefaultPlatformId),
                             !.calls = Append(@, Call("service.getOne", <<inv[p].serviceId>>, NoValue))])
  /\ UNCHANGED allowance

(* getOne settled: the transaction id checks, then the ledger write named  *)
(* after the operation.                                                    *)
ServiceFetched(p) ==
  /\ inv[p].pc = "awaitService"
  /\ \E outcome \in {"ok", "throw"}, service \in ServiceResults :
       LET calls == SetOut(inv[p].calls, outcome)
           transactionId == TransactionIdOf(service)
       IN
       IF outcome = "throw" THEN
         /\ service = NoService
         /\ Throw(p, calls, "rejected: getOne")
       ELSE IF TransactionIdMissing(transactionId) THEN
         Set(p, [inv[p] EXCEPT !.pc = "error", !.err = "service transaction not found",
                               !.service = service, !.calls = calls])
       ELSE
         Set(p, [inv[p] EXCEPT !.pc = "awaitSettle", !.service = service,
                               !.calls = Append(calls, Call(inv[p].op,
                                                           SettleArgs(inv[p], transactionId),
                                                           NoValue))])
  /\ UNCHANGED allowance

(* The ledger write settled: its hash is returned as is. *)
SettleWritten(p) ==
  /\ inv[p].pc = "awaitSettle"
  /\ \E outcome \in {"hash", "falsy", "throw"} :
       LET calls == SetOut(inv[p].calls, outcome) IN
       IF outcome = "throw" THEN Throw(p, calls, "rejected: writeContract")
       ELSE Set(p, [inv[p] EXCEPT !.pc = "done", !.calls = calls,
                                  !.tx = IF outcome = "hash" THEN "0xhash" ELSE ""])
  /\ UNCHANGED allowance

Settle(p) ==
  \/ ReleaseStart(p)
  \/ ReimburseStart(p)
  \/ ServiceFetched(p)
  \/ SettleWritten(p)

(***************************************************************************)
(* getGraphQLConfig (config.ts)                                            *)
(***************************************************************************)

(* getGraphQLConfig(chainId): reads subgraphUrl of the looked-up           *)
(* configuration; the read throws a TypeError on undefined.                *)
GetGraphQLConfig(p) ==
  /\ inv[p].pc = "idle"
  /\ \E chainId \in NetworkEnum \cup OtherNetworkIds :
       LET config == getChainConfig(chainId) IN
       IF ~config.defined THEN
         Set(p, [inv[p] EXCEPT !.pc = "error", !.op = "getGraphQLConfig", !.chainId = chainId,
                               !.lookedUp = TRUE, !.config = config, !.err = "TypeError"])
       ELSE
         Set(p, [inv[p] EXCEPT !.pc = "done", !.op = "getGraphQLConfig", !.chainId = chainId,
                               !.lookedUp = TRUE, !.config = config,
                               !.graphQLConfig = [chainId |-> chainId,
                                                  subgraphUrl |-> config.subgraphUrl]])
  /\ UNCHANGED allowance

(***************************************************************************)
(* Platform.getArbitrators and Platform.updateArbitrator                   *)
(***************************************************************************)

(* An address outside every allow-list: the amoy escrow contract. *)
escrowAddress ==
  <<"0", "x", "4", "6", "6", "e", "6", "5", "2", "3", "1", "D", "B", "e",
    "8", "7", "b", "1", "8", "4", "c", "7", "c", "E", "e", "E", "8", "A",
    "3", "1", "9", "b", "4", "a", "B", "1", "1", "7", "9", "1", "5", "B">>

(* Candidate addresses: the zero address, every arbitrator address as      *)
(* written, in lower case and in upper case, and a third address.          *)
ArbitratorAddresses ==
  {chains[n].talentLayerArbitrator : n \in NetworkEnum} \cup {localConfig.talentLayerArbitrator}

ArbitratorCandidates ==
  ArbitratorAddresses \cup {toLowerCase(a) : a \in ArbitratorAddresses}
    \cup {toUpperCase(a) : a \in ArbitratorAddresses} \cup {escrowAddress}

(* this.wallet.chainId: a client without custom configuration is only      *)
(* constructed on a network of the table.                                  *)
WalletChainIds(customConfig) ==
  IF customConfig.present THEN NetworkEnum \cup OtherNetworkIds ELSE NetworkEnum

(* Slip: the static table wins whenever it has an entry for the chain. *)
ChainConfigFor_TableFirst(customConfig, chainId) ==
  IF customConfig.present /\ chainId \notin DOMAIN chains
  THEN [lookedUp |-> FALSE, config |-> customConfig.contractConfig]
  ELSE [lookedUp |-> TRUE, config |-> getChainConfig(chainId)]

(* this.customConfig ? this.customConfig.contractConfig : getChainConfig(chainId) *)
ChainConfigFor(customConfig, chainId) ==
  IF customConfig.present
  THEN [lookedUp |-> FALSE, config |-> customConfig.contractConfig]
  ELSE [lookedUp |-> TRUE, config |-> getChainConfig(chainId)]

(* The list getArbitrators returns for a configuration. *)
AllowedArbitrators(config) ==
  <<[address |-> zeroAddress, name |-> "None"],
    [address |-> config.talentLayerArbitrator, name |-> "TalentLayer Arbitrator"]>>

(* Slip: the candidate is compared as written. *)
IsAllowedArbitrator_CaseSensitive(allowedArbitrators, address) ==
  \E k \in DOMAIN allowedArbitrators : toLowerCase(allowedArbitrators[k].address) = address

(* allowedArbitratorAddresses.includes(address.toLowerCase()) *)
IsAllowedArbitrator(allowedArbitrators, address) ==
  \E k \in DOMAIN allowedArbitrators :
    toLowerCase(allowedArbitrators[k].address) = toLowerCase(address)

(* The arguments of the updateArbitrator ledger write. *)
UpdateArbitratorArgs(platformID, address) == <<platformID, address, "">>

(* Platform.getArbitrators(chainId), called on its own. *)
GetArbitrators(p) ==
  /\ inv[p].pc = "idle"
  /\ \E customConfig \in CustomConfigs, chainId \in NetworkEnum \cup OtherNetworkIds :
       LET resolved == ChainConfigFor(customConfig, chainId)
           started == [inv[p] EXCEPT !.op = "getArbitrators", !.customConfig = customConfig,
                                     !.chainId = chainId, !.lookedUp = resolved.lookedUp,
                                     !.config = resolved.config]
       IN
       IF ~resolved.config.defined
       THEN Set(p, [started EXCEPT !.pc = "error", !.err = "TypeError"])
       ELSE Set(p, [started EXCEPT !.pc = "done",
                                   !.arbitrators = AllowedArbitrators(resolved.config)])
  /\ UNCHANGED allowance

(* Entry of updateArbitrator: the allow-list check, then the ledger write. *)
UpdateArbitratorStart(p) ==
  /\ inv[p].pc = "idle"
  /\ \E customConfig \in CustomConfigs, address \in ArbitratorCandidates,
        platformId \in PlatformIdArgs :
       \E chainId \in WalletChainIds(customConfig) :
         LET platformID == ResolvePlatformId(platformId, DefaultPlatformId)
             resolved == ChainConfigFor(customConfig, chainId)
             allowedArbitrators == AllowedArbitrators(resolved.config)
             started == [inv[p] EXCEPT !.op = "updateArbitrator", !.customConfig = customConfig,
                                       !.chainId = chainId, !.address = address,
                                       !.platformId = platformId, !.platformID = platformID,
                                       !.lookedUp = resolved.lookedUp,
                                       !.config = resolved.config]
         IN
         IF ~resolved.config.defined
         THEN Set(p, [started EXCEPT !.pc = "error", !.err = "TypeError"])
         ELSE IF ~IsAllowedArbitrator(allowedArbitrators, address)
         THEN Set(p, [started EXCEPT !.pc = "error", !.err = "Invalid Arbitrator",
                                     !.arbitrators = allowedArbitrators])
         ELSE Set(p, [started EXCEPT !.pc = "awaitPlatformWrite",
                                     !.arbitrators = allowedArbitrators,
                                     !.calls = Append(@, Call("updateArbitrator",
                                                              UpdateArbitratorArgs(platformID,
                                                                                   address),
                                                              NoValue))])
  /\ UNCHANGED allowance

(* The updateArbitrator write settled: its hash is returned as is. *)
PlatformWritten(p) ==
  /\ inv[p].pc = "awaitPlatformWrite"
  /\ \E outcome \in {"hash", "falsy", "throw"} :
       LET calls == SetOut(inv[p].calls, outcome) IN
       IF outcome = "throw" THEN Throw(p, calls, "rejected: writeContract")
       ELSE Set(p, [inv[p] EXCEPT !.pc = "done", !.calls = calls,
                                  !.tx = IF outcome = "hash" THEN "0xhash" ELSE ""])
  /\ UNCHANGED allowance

PlatformOps(p) ==
  \/ GetGraphQLConfig(p)
  \/ GetArbitrators(p)
  \/ UpdateArbitratorStart(p)
  \/ PlatformWritten(p)

(***************************************************************************)
(* Profile.getByAddress and Profile.create (profile/index.ts)              *)
(***************************************************************************)

(* response && response?.data?.users && Array.isArray(response?.data?.users) *)
HasUsersArray(response) == response.resp = "data" /\ response.users = "array"

(* users[0]: undefined when the list is empty. *)
FirstOf(list) ==
  IF Len(list) >= 1 THEN [type |-> "object", value |-> list[1]]
  ELSE [type |-> "undefined", value |-> NoUser]

(* Entry of getByAddress up to the await of graphQlClient.get. *)
GetByAddressStart(p) ==
  /\ inv[p].pc = "idle"
  /\ \E address \in {zeroAddress, escrowAddress} :
       Set(p, [inv[p] EXCEPT !.pc = "awaitProfile", !.op = "getByAddress", !.address = address,
                             !.calls = Append(@, Call("getProfileByAddress", <<address>>,
                                                      NoValue))])
  /\ UNCHANGED allowance

(* The query settled: the first user of the list, or null. *)
ProfileFetched(p) ==
  /\ inv[p].pc = "awaitProfile"
  /\ \E outcome \in {"ok", "throw"}, response \in ProfileResponses :
       LET calls == SetOut(inv[p].calls, outcome) IN
       IF outcome = "throw" THEN
         /\ response = NoResponse
         /\ Throw(p, calls, "rejected: graphQlClient.get")
       ELSE IF HasUsersArray(response) THEN
         Set(p, [inv[p] EXCEPT !.pc = "done", !.calls = calls, !.response = response,
                               !.returned = FirstOf(response.list)])
       ELSE
         Set(p, [inv[p] EXCEPT !.pc = "done", !.calls = calls, !.response = response,
                               !.returned = [type |-> "null", value |-> NoUser]])
  /\ UNCHANGED allowance

(* response?.data?.protocol *)
ProtocolOf(response) == IF response.resp = "data" THEN response.protocol ELSE NoProtocol

(* Slip: only the protocol record is tested, not its id. *)
ProtocolIdMissing_RecordOnly(protocol) == ~protocol.found

(* !protocol?.id *)
ProtocolIdMissing(protocol) == ~protocol.found \/ ~protocol.hasId \/ protocol.id = <<>>

(* BigInt(fee) of a string of decimal digits. *)
BigInt(fee) == parseInt(fee)

(* The arguments of the mint ledger write. *)
MintArgs(platformID, handle) == <<toString(platformID), handle>>

(* Entry of create up to the await of graphQlClient.get. *)
CreateStart(p) ==
  /\ inv[p].pc = "idle"
  /\ \E handle \in Handles, platformId \in PlatformIdArgs :
       Set(p, [inv[p] EXCEPT !.pc = "awaitProtocol", !.op = "create", !.handle = handle,
                             !.platformId = platformId,
                             !.platformID = ResolvePlatformId(platformId, DefaultPlatformId),
                             !.calls = Append(@, Call("getProtocolById", <<1>>, NoValue))])
  /\ UNCHANGED allowance

(* The query settled: the protocol id check, then the mint write with the  *)
(* mint fee as its value; BigInt throws a TypeError on an undefined fee.   *)
ProtocolFetched(p) ==
  /\ inv[p].pc = "awaitProtocol"
  /\ \E outcome \in {"ok", "throw"}, response \in ProtocolResponses :
       LET calls == SetOut(inv[p].calls, outcome)
           protocol == ProtocolOf(response)
       IN
       IF outcome = "throw" THEN
         /\ response = NoResponse
         /\ Throw(p, calls, "rejected: graphQlClient.get")
       ELSE IF ProtocolIdMissing(protocol) THEN
         Set(p, [inv[p] EXCEPT !.pc = "error", !.err = "Protocol not found", !.calls = calls,
                               !.response = response])
       ELSE IF ~protocol.hasFee THEN
         Set(p, [inv[p] EXCEPT !.pc = "error", !.err = "TypeError", !.calls = calls,
                               !.response = response])
       ELSE
         Set(p, [inv[p] EXCEPT !.pc = "awaitMint", !.response = response,
                               !.calls = Append(calls, Call("mint",
                                                           MintArgs(inv[p].platformID,
                                                                    inv[p].handle),
                                                           BigInt(protocol.userMintFee)))])
  /\ UNCHANGED allowance

(* The mint write settled: its hash is returned as is. *)
MintWritten(p) ==
  /\ inv[p].pc = "awaitMint"
  /\ \E outcome \in {"hash", "falsy", "throw"} :
       LET calls == SetOut(inv[p].calls, outcome) IN
       IF outcome = "throw" THEN Throw(p, calls, "rejected: writeContract")
       ELSE Set(p, [inv[p] EXCEPT !.pc = "done", !.calls = calls,
                                  !.tx = IF outcome = "hash" THEN "0xhash" ELSE ""])
  /\ UNCHANGED allowance

ProfileOps(p) ==
  \/ GetByAddressStart(p)
  \/ ProfileFetched(p)
  \/ CreateStart(p)
  \/ ProtocolFetched(p)
  \/ MintWritten(p)

Init ==
  /\ inv = [p \in Procs |-> Idle]
  /\ allowance \in 0..MaxAllowance

Next == \E p \in {1} : Approve(p) \/ Settle(p) \/ PlatformOps(p) \/ ProfileOps(p)

Spec == Init /\ [][Next]_vars

(***************************************************************************)
(* Two approve invocations of one payer for different proposals, their     *)
(* steps interleaved at the awaits.  Both proposals are paid in the same   *)
(* ERC-20 token, so both invocations read and set the one allowance of the *)
(* payer for the escrow contract.                                          *)
(***************************************************************************)
OtherProposalId == <<"5", "-", "2">>

(* The inputs of the concurrent runs: no platformId argument, proposals    *)
(* with a cid and a positive amount in the ERC-20 token, a fee schedule    *)
(* without fees, and collaborators that answer instead of rejecting.       *)
ParScope ==
  \A p \in Procs :
    /\ inv[p].platformId = NoPlatformId
    /\ inv[p].pc \notin {"idle", "awaitProposal"}
         => /\ inv[p].proposal.found
            /\ inv[p].proposal.hasCid
            /\ inv[p].proposal.cid = "QmProposal"
            /\ inv[p].proposal.rateToken = USDC
            /\ inv[p].proposal.rateAmount >= 1
    /\ inv[p].pc \notin {"idle", "awaitProposal", "awaitFees"}
         => /\ inv[p].fees.resp = "data"
            /\ \A r \in {inv[p].fees.servicePlatform, inv[p].fees.proposalPlatform,
                          inv[p].fees.protocol} : r = [kind |-> "ok", rate |-> 0]
    /\ \A k \in DOMAIN inv[p].calls :
         /\ inv[p].calls[k].out # "throw"
         /\ inv[p].calls[k].ret # "0xb0b"

InitPar ==
  /\ inv = [p \in Procs |-> IF p = 1 THEN Idle ELSE [Idle EXCEPT !.proposalId = OtherProposalId]]
  /\ allowance \in 0..MaxAllowance

(* The steps of approve, on the inputs of ParScope. *)
ApproveInScope(p) ==
  \/ ApproveStart(p) /\ ParScope'
  \/ ProposalFetched(p) /\ ParScope'
  \/ FeesFetched(p) /\ ParScope'
  \/ AllowanceRead(p) /\ ParScope'
  \/ ApproveSubmitted(p) /\ ParScope'
  \/ ReceiptArrived(p) /\ ParScope'
  \/ TransactionCreated(p) /\ ParScope'

NextPar == \E p \in Procs : ApproveInScope(p)

SpecPar == InitPar /\ [][NextPar]_vars

(***************************************************************************)
(* Properties                                                              *)
(***************************************************************************)
Issued(p, fns) == {k \in DOMAIN inv[p].calls : inv[p].calls[k].fn \in fns}

ProposalReturned(p) ==
  /\ inv[p].op = "approve"
  /\ Len(inv[p].calls) >= 1
  /\ inv[p].calls[1].out = "ok"

ApproveOn(p, token) ==
  /\ ProposalReturned(p)
  /\ inv[p].proposal.found
  /\ inv[p].proposal.rateToken = token

(* floor(amount * rate / divider) for a rate up to the divider, stated by  *)
(* its defining inequality.                                                *)
FeeComponent(amount, rate) ==
  CHOOSE q \in 0..amount :
    q * FEE_RATE_DIVIDER <= amount * rate /\ amount * rate < (q + 1) * FEE_RATE_DIVIDER

(* The amount the payer owes for a proposal under a fee schedule. *)
AmountWithFees(proposal, fees) ==
  proposal.rateAmount
    + FeeComponent(proposal.rateAmount, fees.servicePlatform.rate)
    + FeeComponent(proposal.rateAmount, fees.proposalPlatform.rate)
    + FeeComponent(proposal.rateAmount, fees.protocol.rate)

C3_SufficientAllowanceSkipsApprove ==
  \A p \in Procs :
    ApproveOn(p, USDC) =>
      \A k \in Issued(p, {"checkAllowance"}) :
        (inv[p].calls[k].out = "ok" /\ inv[p].allowanceRead >= inv[p].approvalAmount) =>
          /\ Issued(p, {"erc20.approve"}) = {}
          /\ Len(inv[p].calls) > k
          /\ inv[p].calls[k + 1].fn = "createTransaction"

C3_Witness ==
  /\ ApproveOn(1, USDC)
  /\ inv[1].pc = "awaitCreate"
  /\ inv[1].approvalAmount > 0
  /\ inv[1].allowanceRead = inv[1].approvalAmount

(* C4: every ERC-20 approve call carries exactly the approval amount of    *)
(* this invocation: rateAmount plus the three fee components.              *)
C4_ApproveExactAmount ==
  \A p \in Procs :
    \A k \in Issued(p, {"erc20.approve"}) :
      /\ inv[p].calls[k].args[2] = inv[p].approvalAmount
      /\ inv[p].calls[k].args[2] = AmountWithFees(inv[p].proposal, inv[p].fees)

C4_Witness ==
  /\ Issued(1, {"erc20.approve"}) # {}
  /\ inv[1].allowanceRead > 0
  /\ inv[1].approvalAmount > inv[1].proposal.rateAmount

(* C5: when the fetched proposal is absent or has no cid, approve ends in  *)
(* an error and the proposal fetch is the only collaborator call.          *)
C5_NoCidFailsBeforeAnyCall ==
  \A p \in Procs :
    (/\ ProposalReturned(p)
     /\ \/ ~inv[p].proposal.found
        \/ ~inv[p].proposal.hasCid
        \/ inv[p].proposal.cid = "")
      => /\ inv[p].pc = "error"
         /\ Len(inv[p].calls) = 1
         /\ inv[p].calls[1].fn = "proposal.getOne"

C5_Witness ==
  /\ ProposalReturned(1)
  /\ inv[1].proposal.found
  /\ inv[1].proposal.hasCid
  /\ inv[1].proposal.cid = ""
  /\ inv[1].pc = "error"

(* C6: on the ERC-20 path with insufficient allowance, createTransaction   *)
(* is issued only right after a receipt wait that returned status          *)
(* 'success' for an approve call that returned; a throwing approve, a      *)
(* throwing wait or another status leaves createTransaction unissued.      *)
C6_CreateOnlyAfterSuccessfulReceipt ==
  \A p \in Procs :
    \A a \in Issued(p, {"erc20.approve"}) :
      /\ \A k \in Issued(p, {"createTransaction"}) :
           /\ k = a + 2
           /\ inv[p].calls[a].out = "ok"
           /\ inv[p].calls[a + 1].fn = "waitForTransactionReceipt"
           /\ inv[p].calls[a + 1].out = "success"
      /\ (\E k \in a..Len(inv[p].calls) : inv[p].calls[k].out \in {"throw", "reverted"}
             /\ inv[p].calls[k].fn \in {"erc20.approve", "waitForTransactionReceipt"})
           => Issued(p, {"createTransaction"}) = {}

C6_Witness ==
  /\ Issued(1, {"erc20.approve"}) # {}
  /\ inv[1].pc = "done"

(* C7 as stated: an approve receipt with a failure status ends approve in  *)
(* an error other than the one a throwing approve submission ends it in.   *)
C7_ReceiptFailureHasOwnError ==
  \A p \in Procs :
    \A k \in Issued(p, {"waitForTransactionReceipt"}) :
      inv[p].calls[k].out = "reverted" =>
        /\ inv[p].pc = "error"
        /\ inv[p].err # ApprovalCatchError

(* C7, the other failure mode: a throwing approve submission ends approve  *)
(* in the error of the catch block.                                        *)
C7_SubmissionThrowError ==
  \A p \in Procs :
    \A k \in Issued(p, {"erc20.approve"}) :
      inv[p].calls[k].out = "throw" =>
        /\ inv[p].pc = "error"
        /\ inv[p].err = ApprovalCatchError

FeesReturned(p) ==
  /\ inv[p].op = "approve"
  /\ Len(inv[p].calls) >= 2
  /\ inv[p].calls[2].fn = "getProtocolAndPlatformsFees"
  /\ inv[p].calls[2].out = "ok"

RateLacking(fees) ==
  \/ fees.resp # "data"
  \/ fees.servicePlatform.kind # "ok"
  \/ fees.proposalPlatform.kind # "ok"
  \/ fees.protocol.kind # "ok"

AmountComputed(p) ==
  /\ FeesReturned(p)
  /\ ~RateLacking(inv[p].fees)

(* C9: the approval amount approve computes is rateAmount plus             *)
(* floor(rateAmount * r / divider) for each of the three rates, each       *)
(* truncated on its own, and raising any one rate never lowers it.         *)
C9_ApprovalAmountFormula ==
  \A p \in Procs :
    AmountComputed(p) =>
      LET proposal == inv[p].proposal
          fees == inv[p].fees
          args == <<fees.servicePlatform, fees.proposalPlatform, fees.protocol>>
      IN
      /\ inv[p].approvalAmount = AmountWithFees(proposal, fees)
      /\ \A k \in 1..3, r \in Rates :
           r >= args[k].rate =>
             ApprovalAmountOf(proposal, [args EXCEPT ![k] = [kind |-> "ok", rate |-> r]])
               >= inv[p].approvalAmount

C9_Witness ==
  /\ AmountComputed(1)
  /\ inv[1].proposal.rateAmount = 3
  /\ inv[1].fees.servicePlatform.rate = 2500
  /\ inv[1].fees.proposalPlatform.rate = 2500
  /\ inv[1].fees.protocol.rate = FEE_RATE_DIVIDER
  /\ inv[1].approvalAmount = 6

ServiceReturned(p) ==
  /\ inv[p].op \in {"release", "reimburse"}
  /\ Len(inv[p].calls) >= 1
  /\ inv[p].calls[1].out = "ok"

(* C10: when the service fetched by release or reimburse is absent, has no *)
(* transaction or has a transaction without an id, the operation ends in   *)
(* an error and no ledger write is issued.                                 *)
C10_NoTransactionIdNoWrite ==
  \A p \in Procs :
    (/\ ServiceReturned(p)
     /\ \/ ~inv[p].service.found
        \/ ~inv[p].service.hasTransaction
        \/ ~inv[p].service.hasId
        \/ inv[p].service.id = <<>>)
      => /\ inv[p].pc = "error"
         /\ Issued(p, {"release", "reimburse"}) = {}

C10_Witness ==
  /\ ServiceReturned(1)
  /\ inv[1].op = "reimburse"
  /\ inv[1].service.found
  /\ inv[1].service.hasTransaction
  /\ ~inv[1].service.hasId
  /\ inv[1].pc = "error"

(* Two addresses are the same up to the case of their letters. *)
SameIgnoringCase(a, b) ==
  /\ Len(a) = Len(b)
  /\ \A k \in DOMAIN a :
       \/ a[k] = b[k]
       \/ \E i \in DOMAIN UpperCase : {a[k], b[k]} = {UpperCase[i], LowerCase[i]}

(* C11: updateArbitrator issues the updateArbitrator ledger write, with    *)
(* the platform id and the address as given, exactly when the address is,  *)
(* ignoring case, the zero address or the talentLayerArbitrator address of *)
(* the resolved configuration; otherwise it fails with 'Invalid            *)
(* Arbitrator' and issues no call.                                         *)
C11_ArbitratorAllowList ==
  \A p \in Procs :
    inv[p].op = "updateArbitrator" =>
      IF \/ SameIgnoringCase(inv[p].address, zeroAddress)
         \/ SameIgnoringCase(inv[p].address, inv[p].config.talentLayerArbitrator)
      THEN /\ Issued(p, {"updateArbitrator"}) = {1}
           /\ Len(inv[p].calls) = 1
           /\ inv[p].calls[1].args = <<inv[p].platformID, inv[p].address, "">>
      ELSE /\ inv[p].pc = "error"
           /\ inv[p].err = "Invalid Arbitrator"
           /\ inv[p].calls = <<>>

C11_Witness ==
  /\ inv[1].op = "updateArbitrator"
  /\ inv[1].pc = "done"
  /\ inv[1].chainId = "POLYGON"
  /\ inv[1].address # inv[1].config.talentLayerArbitrator
  /\ SameIgnoringCase(inv[1].address, inv[1].config.talentLayerArbitrator)

(* C13 as stated: a chain configuration lookup never yields an absent      *)
(* configuration: it returns the configuration of the network or fails.    *)
C13_LookupNeverUndefined ==
  \A p \in Procs : inv[p].lookedUp => inv[p].config.defined

(* C14: with a custom configuration the arbitrator of getArbitrators and   *)
(* of updateArbitrator's allow-list is the custom configuration's, for     *)
(* every chain id, and the static table is not consulted; without one it   *)
(* is the static table's entry for the chain id.                           *)
C14_CustomConfigPrecedence ==
  \A p \in Procs :
    (inv[p].op \in {"getArbitrators", "updateArbitrator"} /\ inv[p].arbitrators # <<>>) =>
      IF inv[p].customConfig.present
      THEN /\ inv[p].arbitrators[2].address
                = inv[p].customConfig.contractConfig.talentLayerArbitrator
           /\ ~inv[p].lookedUp
      ELSE /\ inv[p].arbitrators[2].address = chains[inv[p].chainId].talentLayerArbitrator
           /\ inv[p].lookedUp

C14_Witness ==
  /\ inv[1].op = "updateArbitrator"
  /\ inv[1].customConfig.present
  /\ inv[1].chainId = "AMOY"
  /\ inv[1].pc = "done"
  /\ inv[1].address = localConfig.talentLayerArbitrator

LastCall(p) == inv[p].calls[Len(inv[p].calls)]

(* The allowance changes only when a receipt wait of an approve call       *)
(* returns 'success', and then it rises to the amount of that call.        *)
AllowanceRaisedByConfirmedApprove ==
  allowance' # allowance =>
    \E p \in Procs :
      /\ inv[p].pc = "awaitReceipt"
      /\ Len(inv'[p].calls) >= Len(inv[p].calls)
      /\ inv'[p].calls[Len(inv[p].calls)].out = "success"
      /\ allowance' = inv[p].calls[Len(inv[p].calls) - 1].args[2]
      /\ allowance' > allowance

(* C15: approve returns a payload only after its createTransaction call    *)
(* returned a transaction hash, the payload being that hash and the cid of *)
(* the fetched proposal; an approve that ends in an error has no           *)
(* createTransaction call that returned a hash, and the allowance changes  *)
(* only by a confirmed approve raising it.                                 *)
C15_PayloadOnlyAfterCreate ==
  /\ [](\A p \in Procs :
          inv[p].op = "approve" =>
            /\ inv[p].pc = "done" =>
                 /\ LastCall(p).fn = "createTransaction"
                 /\ LastCall(p).out = "hash"
                 /\ LastCall(p).ret \in Hashes
                 /\ inv[p].tx = LastCall(p).ret
                 /\ inv[p].cid = inv[p].proposal.cid
                 /\ inv[p].cid # ""
            /\ inv[p].pc = "error" =>
                 \A k \in Issued(p, {"createTransaction"}) : inv[p].calls[k].out # "hash")
  /\ [][AllowanceRaisedByConfirmedApprove]_vars

C15_Witness ==
  /\ inv[1].op = "approve"
  /\ inv[1].pc = "done"
  /\ inv[1].tx = "0xb0b"
  /\ Issued(1, {"erc20.approve"}) # {}

(* C16 as stated: getByAddress resolves to the first profile when the      *)
(* service returns one and to null in every other case, the empty users    *)
(* list included.  The code resolves to users[0], which is undefined for   *)
(* an empty list.                                                          *)
C16_NoProfileIsNull ==
  \A p \in Procs :
    (inv[p].op = "getByAddress" /\ inv[p].pc = "done")
      => IF /\ inv[p].response.resp = "data"
            /\ inv[p].response.users = "array"
            /\ Len(inv[p].response.list) >= 1
         THEN inv[p].returned = [type |-> "object", value |-> inv[p].response.list[1]]
         ELSE inv[p].returned.type = "null"

(* C17: one invocation of approve issues at most one ERC-20 approve write  *)
(* and at most one createTransaction write, whatever the collaborators     *)
(* answer.                                                                 *)
C17_AtMostOneWriteOfEachKind ==
  \A p \in Procs :
    /\ Cardinality(Issued(p, {"erc20.approve"})) <= 1
    /\ Cardinality(Issued(p, {"createTransaction"})) <= 1

C17_Witness ==
  /\ inv[1].op = "approve"
  /\ inv[1].pc = "error"
  /\ inv[1].err = "Approval transaction failed with error"
  /\ Cardinality(Issued(1, {"erc20.approve"})) = 1
  /\ LastCall(1).fn = "erc20.approve"
  /\ LastCall(1).out = "throw"

(* C18 as stated: a supplied platform id, 0 included, is the platform id   *)
(* the operation uses.  The code resolves platformId || default, so a      *)
(* supplied 0 yields the default.                                          *)
C18_SuppliedPlatformIdIsUsed ==
  \A p \in Procs :
    inv[p].platformId.given
      => /\ inv[p].platformID = inv[p].platformId.value
         /\ \A k \in Issued(p, {"mint"}) :
              inv[p].calls[k].args[1] = toString(inv[p].platformId.value)
         /\ \A k \in Issued(p, {"updateArbitrator"}) :
              inv[p].calls[k].args[1] = inv[p].platformId.value

(* C19: once the fetched service has a transaction id, release and         *)
(* reimburse have issued exactly one further call, the ledger write named  *)
(* after the operation with (userId, transaction id, amount), and no fee   *)
(* query, allowance read or ERC-20 approve.                                *)
C19_SettleWritesOnce ==
  \A p \in Procs :
    (/\ ServiceReturned(p)
     /\ inv[p].service.found
     /\ inv[p].service.hasTransaction
     /\ inv[p].service.hasId
     /\ inv[p].service.id # <<>>)
      => /\ Len(inv[p].calls) = 2
         /\ inv[p].calls[1].fn = "service.getOne"
         /\ inv[p].calls[2].fn = inv[p].op
         /\ inv[p].calls[2].args[1] = inv[p].userId
         /\ toString(inv[p].calls[2].args[2]) = inv[p].service.id
         /\ parseInt(inv[p].calls[2].args[3]) = inv[p].amount

C19_Witness ==
  /\ inv[1].op = "reimburse"
  /\ inv[1].pc = "done"
  /\ inv[1].service.id = <<"1", "2">>
  /\ inv[1].amount = 3 * MaxAmount
  /\ Issued(1, {"reimburse"}) = {2}

ProtocolReturned(p) ==
  /\ inv[p].op = "create"
  /\ Len(inv[p].calls) >= 1
  /\ inv[p].calls[1].out = "ok"

(* C20: create issues the mint write only after a protocol record with a   *)
(* non-empty id was fetched, with the record's userMintFee as the value of *)
(* the call; without the record or its id it fails with 'Protocol not      *)
(* found' and issues no write.                                             *)
C20_MintOnlyWithProtocol ==
  \A p \in Procs :
    /\ \A k \in Issued(p, {"mint"}) :
         /\ k = 2
         /\ ProtocolReturned(p)
         /\ inv[p].response.resp = "data"
         /\ inv[p].response.protocol.found
         /\ inv[p].response.protocol.hasId
         /\ inv[p].response.protocol.id # <<>>
         /\ toString(inv[p].calls[k].value) = inv[p].response.protocol.userMintFee
    /\ (/\ ProtocolReturned(p)
        /\ \/ inv[p].response.resp # "data"
           \/ ~inv[p].response.protocol.found
           \/ ~inv[p].response.protocol.hasId
           \/ inv[p].response.protocol.id = <<>>)
         => /\ inv[p].pc = "error"
            /\ inv[p].err = "Protocol not found"
            /\ Issued(p, {"mint"}) = {}

C20_Witness ==
  /\ inv[1].op = "create"
  /\ inv[1].pc = "done"
  /\ Issued(1, {"mint"}) = {2}
  /\ inv[1].calls[2].value = 12
  /\ inv[1].response.protocol.userMintFee = <<"1", "2">>

(* C12 as stated: an approve invocation interleaved with another one for a *)
(* different proposal proceeds as if it ran alone.  Alone, the allowance   *)
(* it has secured covers its amount while its createTransaction is         *)
(* pending; interleaved, the other invocation's ERC-20 approve replaces    *)
(* that allowance by its own, smaller amount.                              *)
C12_PendingCreateIsCovered ==
  \A p \in Procs :
    (/\ inv[p].op = "approve"
     /\ inv[p].pc = "awaitCreate"
     /\ inv[p].proposal.rateToken = USDC)
      => allowance >= inv[p].approvalAmount

====
